---- MODULE Spec2Model ----
(***************************************************************************)
(* Model of main.py: the VK -> Yandex.Disk album backup script.            *)
(*                                                                         *)
(* One run of the __main__ block is modelled as a state machine:           *)
(*   input -> get_album -> process (loop of proccess_album) -> make_dir    *)
(*   -> upload / in_flight (loop of backup_album) -> write -> done         *)
(* with "crashed" the state after an uncaught exception.                   *)
(*                                                                         *)
(* Python dicts are functions whose DOMAIN is the set of keys present, so  *)
(* that dict.get(key, default) is a real lookup with a default.  Python    *)
(* lists are sequences.  f-strings are built with ToString and \o.         *)
(***************************************************************************)
EXTENDS Integers, Sequences, FiniteSets, TLC

(***************************************************************************)
(* Bounds of the model.                                                    *)
(***************************************************************************)
MaxItems == 3
MaxCount == 3

(***************************************************************************)
(* dict.get(key, default)                                                  *)
(***************************************************************************)
EmptyDict == <<>>

Get(d, key, default) == IF key \in DOMAIN d THEN d[key] ELSE default

(***************************************************************************)
(* Inputs: what the user types, what the two services answer.              *)
(***************************************************************************)
UserIds == {"1", "id7"}

Counts == -1 .. MaxCount

Today == "2023-12-01"

Now == "101500.123456"

SizeS == [url |-> "a", type |-> "x"]
SizeM == [url |-> "b", type |-> "y"]
SizeZ == [url |-> "c", type |-> "z"]
SizeNoType == [url |-> "d"]

Items ==
    { [sizes |-> <<SizeS, SizeM>>, likes |-> [count |-> 3], date |-> 100],
      [sizes |-> <<SizeZ>>,        likes |-> [count |-> 3], date |-> 200],
      [sizes |-> <<SizeS>>,        likes |-> [count |-> 0], date |-> 100],
      [sizes |-> <<SizeNoType>>],
      [sizes |-> <<SizeM>>,        likes |-> EmptyDict,     date |-> 200],
      [sizes |-> <<>>,             likes |-> [count |-> 3], date |-> 100],
      [likes |-> [count |-> 7], date |-> 300] }

ItemLists == UNION { [1..n -> Items] : n \in 0..MaxItems }

\* the "response" object of photos.get: with an items list, or without one
Albums == { [items |-> s] : s \in ItemLists } \cup { [count |-> 0] }

\* decoded JSON bodies of photos.get: a response, or an API error
Bodies == { [response |-> a] : a \in Albums } \cup { [error |-> "5"] }

\* decoded JSON bodies of the storage service
Payloads == { "ok", "error" }

(***************************************************************************)
(* State.                                                                  *)
(***************************************************************************)
VARIABLES
    pc,          \* position of the script
    raised,      \* the call whose exception ended the run, "" if none
    user_id,     \* main.py:139
    count,       \* main.py:141
    album,       \* main.py:148, the dict returned by get_album
    result,      \* proccess_album: the list built so far
    likes_set,   \* proccess_album: like-counts seen so far
    idx,         \* proccess_album: number of (idx, item) pairs consumed
    album_procc, \* main.py:149, the list returned by proccess_album
    mkdirCalls,  \* paths of the make_dir calls issued
    make_dir,    \* backup_album: <<payload>> once make_dir has returned
    uploadCalls, \* [path, url] of the upload_url calls issued
    responses,   \* payloads of the upload_url calls that returned
    pos,         \* backup_album: descriptors the for loop has taken
    inflight,    \* upload_url calls issued and not yet finished
    report,      \* backup_album: the local list report
    returned,    \* <<value>> once backup_album has returned
    files        \* report files written: set of [path, text]

vars == <<pc, raised, user_id, count, album, result, likes_set, idx,
          album_procc, mkdirCalls, make_dir, uploadCalls, responses,
          pos, inflight, report, returned, files>>

procVars == <<result, likes_set, idx, album_procc>>
backupVars == <<mkdirCalls, make_dir, uploadCalls, responses, pos, inflight,
                report, returned>>
inputVars == <<user_id, count>>

Init ==
    /\ pc = "input"
    /\ raised = ""
    /\ user_id = ""
    /\ count = 0
    /\ album = EmptyDict
    /\ result = <<>>
    /\ likes_set = {}
    /\ idx = 0
    /\ album_procc = <<>>
    /\ mkdirCalls = <<>>
    /\ make_dir = <<>>
    /\ uploadCalls = <<>>
    /\ responses = <<>>
    /\ pos = 0
    /\ inflight = 0
    /\ report = <<>>
    /\ returned = <<>>
    /\ files = {}

(***************************************************************************)
(* __main__, lines 139-141: the three prompts.                             *)
(***************************************************************************)
ReadInputs ==
    /\ pc = "input"
    /\ \E u \in UserIds, c \in Counts :
          /\ user_id' = u
          /\ count' = c
    /\ pc' = "get_album"
    /\ UNCHANGED <<raised, album, procVars, backupVars, files>>

(***************************************************************************)
(* VKclient.get_album, line 59: response.json().get("response", {})        *)
(***************************************************************************)
get_album(body) == Get(body, "response", EmptyDict)

GetAlbum ==
    /\ pc = "get_album"
    /\ \E body \in Bodies : album' = get_album(body)
    /\ pc' = "process"
    /\ UNCHANGED <<raised, inputVars, procVars, backupVars, files>>

\* requests.get or response.json() raises: uncaught, the process exits
GetAlbumRaise ==
    /\ pc = "get_album"
    /\ pc' = "crashed"
    /\ raised' = "get_album"
    /\ UNCHANGED <<inputVars, album, procVars, backupVars, files>>

(***************************************************************************)
(* proccess_album, lines 96-115.                                           *)
(***************************************************************************)
Last(s) == s[Len(s)]

\* line 102: the list zipped with range(count)
items_of(a) == Get(a, "items", <<>>)

\* lines 103-104: item.get("sizes", [])[-1] raises IndexError on []
SizesEmpty(item) == Len(Get(item, "sizes", <<>>)) = 0

\* lines 103-104
Entry(item) ==
    [url  |-> Get(Last(Get(item, "sizes", <<>>)), "url", ""),
     size |-> Get(Last(Get(item, "sizes", <<>>)), "type", "")]

\* line 105
Likes(item) == Get(Get(item, "likes", EmptyDict), "count", 0)

\* FileName without the dedup branch: every item gets the base name
FileName_alwaysBase(item, seen) == ToString(Likes(item)) \o ".jpg"

\* lines 107-111
FileName(item, seen) ==
    IF Likes(item) \notin seen
    THEN ToString(Likes(item)) \o ".jpg"
    ELSE ToString(Likes(item)) \o "_" \o ToString(Get(item, "date", 0)) \o ".jpg"

\* line 102: zip(range(count), items) has another pair
LoopHasNext == idx < count /\ idx < Len(items_of(album))

\* one iteration of the for loop, lines 102-113
ProcessItem ==
    /\ pc = "process"
    /\ LoopHasNext
    /\ LET item == items_of(album)[idx + 1] IN
          /\ ~SizesEmpty(item)
          /\ result' = Append(result,
                 [url       |-> Entry(item).url,
                  size      |-> Entry(item).size,
                  file_name |-> FileName(item, likes_set)])
          /\ likes_set' = likes_set \cup {Likes(item)}
    /\ idx' = idx + 1
    /\ UNCHANGED <<pc, raised, inputVars, album, album_procc, backupVars, files>>

\* lines 103: IndexError out of [][-1]; uncaught, the process exits
ProcessItemRaise ==
    /\ pc = "process"
    /\ LoopHasNext
    /\ SizesEmpty(items_of(album)[idx + 1])
    /\ pc' = "crashed"
    /\ raised' = "proccess_album"
    /\ idx' = idx + 1
    /\ UNCHANGED <<inputVars, album, result, likes_set, album_procc,
                   backupVars, files>>

\* line 115 and main.py:149
ProcessReturn ==
    /\ pc = "process"
    /\ ~LoopHasNext
    /\ album_procc' = result
    /\ pc' = "make_dir"
    /\ UNCHANGED <<raised, inputVars, album, result, likes_set, idx,
                   backupVars, files>>

(***************************************************************************)
(* backup_album, lines 118-133, called from main.py:150-152.               *)
(***************************************************************************)
backup_dir == "/backup_user-" \o user_id \o "_" \o Today

\* MakeDir that creates the folder only when there is something to upload
MakeDir_skipEmpty ==
    /\ pc = "make_dir"
    /\ mkdirCalls' = IF Len(album_procc) = 0 THEN mkdirCalls
                                             ELSE Append(mkdirCalls, backup_dir)
    /\ \E payload \in Payloads : make_dir' = <<payload>>
    /\ report' = <<>>
    /\ pc' = "upload"
    /\ UNCHANGED <<raised, inputVars, album, procVars, uploadCalls, responses,
                   pos, inflight, returned, files>>

\* line 122: make_dir returns the decoded body, which is only stored
MakeDir ==
    /\ pc = "make_dir"
    /\ mkdirCalls' = Append(mkdirCalls, backup_dir)
    /\ \E payload \in Payloads : make_dir' = <<payload>>
    /\ report' = <<>>
    /\ pc' = "upload"
    /\ UNCHANGED <<raised, inputVars, album, procVars, uploadCalls, responses,
                   pos, inflight, returned, files>>

\* line 122: requests.put raises
MakeDirRaise ==
    /\ pc = "make_dir"
    /\ mkdirCalls' = Append(mkdirCalls, backup_dir)
    /\ pc' = "crashed"
    /\ raised' = "make_dir"
    /\ UNCHANGED <<inputVars, album, procVars, make_dir, uploadCalls, responses,
                   pos, inflight, report, returned, files>>

\* UploadArgs joining folder and file name without the separator
UploadArgs_noSlash(path, item) ==
    [path |-> path \o Get(item, "file_name", ""),
     url  |-> Get(item, "url", "")]

\* lines 126-128: the arguments of the upload_url call for a descriptor
UploadArgs(path, item) ==
    [path |-> path \o "/" \o Get(item, "file_name", ""),
     url  |-> Get(item, "url", "")]

\* lines 129-130
ReportEntry(item) ==
    [file_name |-> Get(item, "file_name", ""), size |-> Get(item, "size", "")]

\* UploadCall that records the report entry when the call is issued
UploadCall_recordsEarly ==
    /\ pc = "upload"
    /\ pos < Len(album_procc)
    /\ pos' = pos + 1
    /\ uploadCalls' = Append(uploadCalls, UploadArgs(backup_dir, album_procc[pos + 1]))
    /\ inflight' = inflight + 1
    /\ report' = Append(report, ReportEntry(album_procc[pos + 1]))
    /\ pc' = "in_flight"
    /\ UNCHANGED <<raised, inputVars, album, procVars, mkdirCalls, make_dir,
                   responses, returned, files>>

\* lines 125-128: the loop takes the next descriptor and issues the call
UploadCall ==
    /\ pc = "upload"
    /\ pos < Len(album_procc)
    /\ pos' = pos + 1
    /\ uploadCalls' = Append(uploadCalls, UploadArgs(backup_dir, album_procc[pos + 1]))
    /\ inflight' = inflight + 1
    /\ pc' = "in_flight"
    /\ UNCHANGED <<raised, inputVars, album, procVars, mkdirCalls, make_dir,
                   responses, report, returned, files>>

\* UploadReturn that records an entry only for a payload without error
UploadReturn_onlyOk ==
    /\ pc = "in_flight"
    /\ \E payload \in Payloads :
          /\ responses' = Append(responses, payload)
          /\ report' = IF payload = "ok"
                       THEN Append(report, ReportEntry(album_procc[pos]))
                       ELSE report
    /\ inflight' = inflight - 1
    /\ pc' = "upload"
    /\ UNCHANGED <<raised, inputVars, album, procVars, mkdirCalls, make_dir,
                   uploadCalls, pos, returned, files>>

\* lines 128-130: the call returns some JSON body; the entry is appended
UploadReturn ==
    /\ pc = "in_flight"
    /\ \E payload \in Payloads : responses' = Append(responses, payload)
    /\ inflight' = inflight - 1
    /\ report' = Append(report, ReportEntry(album_procc[pos]))
    /\ pc' = "upload"
    /\ UNCHANGED <<raised, inputVars, album, procVars, mkdirCalls, make_dir,
                   uploadCalls, pos, returned, files>>

\* UploadRaise with the exception caught and the loop continued
UploadRaise_swallowed ==
    /\ pc = "in_flight"
    /\ inflight' = inflight - 1
    /\ pc' = "upload"
    /\ raised' = "upload_url"
    /\ UNCHANGED <<inputVars, album, procVars, mkdirCalls, make_dir,
                   uploadCalls, responses, pos, report, returned, files>>

\* line 128: requests.post raises; uncaught, the process exits
UploadRaise ==
    /\ pc = "in_flight"
    /\ inflight' = inflight - 1
    /\ pc' = "crashed"
    /\ raised' = "upload_url"
    /\ UNCHANGED <<inputVars, album, procVars, mkdirCalls, make_dir,
                   uploadCalls, responses, pos, report, returned, files>>

\* lines 131-133 and main.py:152
BackupReturn ==
    /\ pc = "upload"
    /\ pos = Len(album_procc)
    /\ returned' = <<[report |-> report]>>
    /\ pc' = "write"
    /\ UNCHANGED <<raised, inputVars, album, procVars, mkdirCalls, make_dir,
                   uploadCalls, responses, pos, inflight, report, files>>

(***************************************************************************)
(* json.dump, main.py:158.  The text of the file is a sequence of JSON     *)
(* tokens: punctuation and string literals.  A dict is written with its    *)
(* keys in insertion order, a list with its elements in order.             *)
(***************************************************************************)
Punct(c) == [t |-> c, v |-> ""]

DumpStr(s) == << [t |-> "string", v |-> s] >>

\* a dict of strings, keys in the given (insertion) order
RECURSIVE DumpMembers(_, _, _)
DumpMembers(d, keys, i) ==
    IF i > Len(keys) THEN <<>>
    ELSE (IF i > 1 THEN <<Punct(",")>> ELSE <<>>)
         \o DumpStr(keys[i]) \o <<Punct(":")>> \o DumpStr(d[keys[i]])
         \o DumpMembers(d, keys, i + 1)

\* DumpEntry that writes the file name only
DumpEntry_nameOnly(e) ==
    <<Punct("{")>> \o DumpMembers(e, <<"file_name">>, 1) \o <<Punct("}")>>

\* an entry of the report, built at lines 129-130: file_name, then size
DumpEntry(e) ==
    <<Punct("{")>> \o DumpMembers(e, <<"file_name", "size">>, 1) \o <<Punct("}")>>

RECURSIVE DumpElements(_, _)
DumpElements(l, i) ==
    IF i > Len(l) THEN <<>>
    ELSE (IF i > 1 THEN <<Punct(",")>> ELSE <<>>)
         \o DumpEntry(l[i]) \o DumpElements(l, i + 1)

DumpList(l) == <<Punct("[")>> \o DumpElements(l, 1) \o <<Punct("]")>>

\* json.dump(report, f) of the value backup_album returned (line 133)
JsonDump(obj) ==
    <<Punct("{")>> \o DumpStr("report") \o <<Punct(":")>>
    \o DumpList(obj["report"]) \o <<Punct("}")>>

\* lines 155-156
report_path == "./app/reports/" \o Today \o "/" \o Now \o "_user-" \o user_id \o ".json"

\* lines 157-158
WriteReport ==
    /\ pc = "write"
    /\ files' = files \cup { [path |-> report_path, text |-> JsonDump(returned[1])] }
    /\ pc' = "done"
    /\ UNCHANGED <<raised, inputVars, album, procVars, backupVars>>

\* line 157: open() raises (no space, no permission); the process exits
WriteReportRaise ==
    /\ pc = "write"
    /\ pc' = "crashed"
    /\ raised' = "open"
    /\ UNCHANGED <<inputVars, album, procVars, backupVars, files>>

(***************************************************************************)
(* Reading a report file back (json.load, on the side of whoever reads the *)
(* report; main.py only writes): a recursive-descent parser of the token   *)
(* text.  Objects become functions on their keys, arrays sequences, string *)
(* literals strings.                                                       *)
(***************************************************************************)
RECURSIVE ParseValue(_, _), ParseElements(_, _, _), ParseMembers(_, _, _)
ParseValue(toks, i) ==
    IF toks[i].t = "string" THEN [val |-> toks[i].v, next |-> i + 1]
    ELSE IF toks[i].t = "["
         THEN IF toks[i + 1].t = "]"
              THEN [val |-> <<>>, next |-> i + 2]
              ELSE ParseElements(toks, i + 1, <<>>)
         ELSE IF toks[i + 1].t = "}"
              THEN [val |-> EmptyDict, next |-> i + 2]
              ELSE ParseMembers(toks, i + 1, EmptyDict)

ParseElements(toks, i, acc) ==
    LET r == ParseValue(toks, i) IN
    IF toks[r.next].t = ","
    THEN ParseElements(toks, r.next + 1, Append(acc, r.val))
    ELSE [val |-> Append(acc, r.val), next |-> r.next + 1]

ParseMembers(toks, i, acc) ==
    LET r == ParseValue(toks, i + 2)
        d == (toks[i].v :> r.val) @@ acc
    IN  IF toks[r.next].t = ","
        THEN ParseMembers(toks, r.next + 1, d)
        ELSE [val |-> d, next |-> r.next + 1]

JsonLoad(toks) == ParseValue(toks, 1).val

IsJsonArray(toks) == toks[1].t = "["

IsJsonObject(toks) == toks[1].t = "{"

(***************************************************************************)
(* The run.                                                                *)
(***************************************************************************)
Next ==
    \/ ReadInputs
    \/ GetAlbum
    \/ GetAlbumRaise
    \/ ProcessItem
    \/ ProcessItemRaise
    \/ ProcessReturn
    \/ MakeDir
    \/ MakeDirRaise
    \/ UploadCall
    \/ UploadReturn
    \/ UploadRaise
    \/ BackupReturn
    \/ WriteReport
    \/ WriteReportRaise

Spec == Init /\ [][Next]_vars

(***************************************************************************)
(* Type invariant.                                                         *)
(***************************************************************************)
PcValues == {"input", "get_album", "process", "make_dir", "upload",
             "in_flight", "write", "done", "crashed"}

TypeOK ==
    /\ pc \in PcValues
    /\ raised \in {"", "get_album", "proccess_album", "make_dir", "upload_url", "open"}
    /\ idx \in 0..MaxItems
    /\ pos \in 0..MaxItems
    /\ inflight \in 0..1
    /\ Len(result) <= MaxItems
    /\ Len(report) <= MaxItems
    /\ Cardinality(files) <= 1

(***************************************************************************)
(* Vocabulary of the properties.                                           *)
(***************************************************************************)
\* proccess_album has returned its list to __main__
ProcReturned ==
    \/ pc \in {"make_dir", "upload", "in_flight", "write", "done"}
    \/ pc = "crashed" /\ raised \in {"make_dir", "upload_url", "open"}

\* proccess_album has ended, by a return or by an exception
ProcEnded == ProcReturned \/ raised = "proccess_album"

\* backup_album has been entered and make_dir called
BackupStarted ==
    \/ pc \in {"upload", "in_flight", "write", "done"}
    \/ pc = "crashed" /\ raised \in {"make_dir", "upload_url", "open"}

\* backup_album has returned its report
BackupReturned == Len(returned) = 1

Min(a, b) == IF a <= b THEN a ELSE b

\* the number of items proccess_album selects for a positive count
Selected == Min(count, Len(items_of(album)))

\* an earlier item of the album has the like-count of item i
SeenEarlier(i) ==
    \E j \in 1..(i - 1) : Likes(items_of(album)[j]) = Likes(items_of(album)[i])

BaseName(item) == ToString(Likes(item)) \o ".jpg"

DatedName(item) ==
    ToString(Likes(item)) \o "_" \o ToString(Get(item, "date", 0)) \o ".jpg"

(***************************************************************************)
(* Properties of proccess_album.                                           *)
(***************************************************************************)

\* C1: the file_name values of the descriptors returned by one call of
\* proccess_album are pairwise distinct.
C1_FileNamesDistinct ==
    ProcReturned =>
        \A i, j \in 1..Len(album_procc) :
            i # j => album_procc[i].file_name # album_procc[j].file_name

\* C2: with a positive count proccess_album returns exactly
\* min(count, len(items)) descriptors in source order, the i-th carrying the
\* url and type of the last size variant of the i-th item.
C2_ReturnsSelected ==
    (count > 0 /\ ProcEnded) =>
        /\ ProcReturned
        /\ Len(album_procc) = Selected
        /\ \A i \in 1..Len(album_procc) :
              LET sizes == Get(items_of(album)[i], "sizes", <<>>) IN
              /\ album_procc[i].url = Get(sizes[Len(sizes)], "url", "")
              /\ album_procc[i].size = Get(sizes[Len(sizes)], "type", "")

\* C3: a descriptor whose item has a like-count that no earlier item has is
\* named <likes>.jpg, and one whose like-count occurred in an earlier item is
\* named <likes>_<date>.jpg from its own date; this holds of the list while
\* it is built and of the list returned.
C3_NamingRule ==
    /\ \A i \in 1..Len(result) :
          result[i].file_name =
              IF SeenEarlier(i) THEN DatedName(items_of(album)[i])
                                ELSE BaseName(items_of(album)[i])
    /\ ProcReturned => album_procc = result

\* C3 witness: two items share the like-count 3; the first is returned as
\* 3.jpg and the second as 3_200.jpg.
C3_Witness ==
    /\ ProcReturned
    /\ Len(album_procc) >= 2
    /\ Likes(items_of(album)[1]) = Likes(items_of(album)[2])
    /\ album_procc[1].file_name = "3.jpg"
    /\ album_procc[2].file_name = "3_200.jpg"

\* C4: proccess_album never raises, and an item whose size-variant list is
\* empty yields a descriptor whose url and size are the empty string.
C4_NeverFails ==
    /\ raised # "proccess_album"
    /\ \A i \in 1..Len(result) :
          SizesEmpty(items_of(album)[i]) =>
              result[i].url = "" /\ result[i].size = ""

(***************************************************************************)
(* Properties of backup_album.                                             *)
(***************************************************************************)

\* C5: when backup_album returns, its report has one entry per descriptor,
\* in descriptor order, the i-th being the file_name and size of the i-th
\* descriptor, whatever the upload_url calls returned.
C5_ReportPerDescriptor ==
    BackupReturned =>
        /\ Len(returned[1].report) = Len(album_procc)
        /\ Len(responses) = Len(album_procc)
        /\ \A i \in 1..Len(album_procc) :
              /\ returned[1].report[i].file_name = album_procc[i].file_name
              /\ returned[1].report[i].size = album_procc[i].size

\* C5 witness: a run that returned after the storage service answered an
\* upload with an error payload.
C5_Witness ==
    /\ BackupReturned
    /\ Len(album_procc) >= 2
    /\ \E i \in 1..Len(responses) : responses[i] = "error"

\* C6: a run of backup_album calls make_dir(base_path) exactly once, before
\* any upload_url call; with no descriptors make_dir is still called once,
\* upload_url never, and the report is empty.
C6_MakeDirOnce ==
    /\ BackupStarted => mkdirCalls = <<backup_dir>>
    /\ ~BackupStarted => mkdirCalls = <<>> /\ uploadCalls = <<>>
    /\ (BackupReturned /\ Len(album_procc) = 0) =>
           /\ uploadCalls = <<>>
           /\ Len(returned[1].report) = 0

\* C6 witness: the source answered with an API error (no "items"), the
\* storage service answered make_dir with an error payload, the run finished.
C6_Witness ==
    /\ pc = "done"
    /\ DOMAIN album = {}
    /\ count > 0
    /\ make_dir = <<"error">>
    /\ mkdirCalls = <<backup_dir>>
    /\ uploadCalls = <<>>
    /\ Len(report) = 0

\* C7: when an upload_url call raises, the run is over: no further upload_url
\* call is issued, backup_album returns nothing, no report file is written
\* and the entries accumulated so far are in no file.
C7_RaiseEndsRun ==
    /\ [](raised = "upload_url" =>
            /\ pc = "crashed"
            /\ Len(uploadCalls) = Len(report) + 1
            /\ returned = <<>>
            /\ files = {})
    /\ [][raised = "upload_url" =>
            /\ uploadCalls' = uploadCalls
            /\ returned' = returned
            /\ files' = files]_vars

\* C7 witness: the second of three uploads raised; one entry had been
\* accumulated.
C7_Witness ==
    /\ raised = "upload_url"
    /\ Len(album_procc) = 3
    /\ Len(uploadCalls) = 2
    /\ Len(report) = 1

\* C8 as stated: the report file is a JSON array that parses back to the
\* entry list accumulated by backup_album.
C8_FileIsArray ==
    \A f \in files : IsJsonArray(f.text) /\ JsonLoad(f.text) = report

\* C8 amended: the report file is a JSON object with the single key "report",
\* whose value parses back to the entry list accumulated by backup_album;
\* a finished run has written it.
C8_FileIsReportObject ==
    /\ \A f \in files :
          /\ IsJsonObject(f.text)
          /\ DOMAIN JsonLoad(f.text) = {"report"}
          /\ JsonLoad(f.text)["report"] = report
    /\ pc = "done" => \E f \in files : f.path = report_path

\* C8 witness: a report of two entries or more has been written.
C8_Witness ==
    /\ pc = "done"
    /\ Len(report) >= 2
    /\ \E f \in files : Len(JsonLoad(f.text)["report"]) = Len(report)

\* C9: upload_url calls are issued one at a time and in descriptor order:
\* the i-th call is upload_url(base_path + "/" + file_name_i, url_i), a call
\* is issued only when every earlier one has returned, and a run that
\* returns has uploaded each descriptor exactly once.
C9_SequentialUploads ==
    /\ [](/\ inflight \in {0, 1}
          /\ Len(uploadCalls) <= Len(album_procc)
          /\ \A i \in 1..Len(uploadCalls) :
                /\ uploadCalls[i].path = backup_dir \o "/" \o album_procc[i].file_name
                /\ uploadCalls[i].url = album_procc[i].url
          /\ BackupReturned => Len(uploadCalls) = Len(album_procc))
    /\ [][Len(uploadCalls') > Len(uploadCalls) =>
            /\ inflight = 0
            /\ Len(responses) = Len(uploadCalls)
            /\ Len(uploadCalls') = Len(uploadCalls) + 1]_vars

\* C9 witness: three uploads were issued and the run finished.
C9_Witness ==
    /\ pc = "done"
    /\ Len(uploadCalls) = 3
    /\ uploadCalls[1].path # uploadCalls[2].path

\* C10: at every point of a run the report holds exactly the entries of the
\* descriptors whose upload_url call has returned, in order; its length never
\* exceeds the number of calls issued and trails it by at most one.
C10_ReportTracksReturns ==
    /\ Len(report) = Len(responses)
    /\ Len(report) <= Len(uploadCalls)
    /\ Len(uploadCalls) <= Len(report) + 1
    /\ (pc = "in_flight") = (Len(uploadCalls) = Len(report) + 1 /\ raised = "")
    /\ \A i \in 1..Len(report) :
          report[i] = [file_name |-> album_procc[i].file_name,
                       size      |-> album_procc[i].size]

\* C10 witness: the second upload is in flight, one entry is recorded.
C10_Witness ==
    /\ pc = "in_flight"
    /\ Len(uploadCalls) = 2
    /\ Len(report) = 1

\* C2 restricted to the calls that return (not a claim: locates the failure
\* of C2 in the exception of C4)
ReturnedListAsSelected ==
    (count > 0 /\ ProcReturned) =>
        /\ Len(album_procc) = Selected
        /\ \A i \in 1..Len(album_procc) :
              LET sizes == Get(items_of(album)[i], "sizes", <<>>) IN
              /\ album_procc[i].url = Get(sizes[Len(sizes)], "url", "")
              /\ album_procc[i].size = Get(sizes[Len(sizes)], "type", "")

====
